---- MODULE Spec2Model ----
(***************************************************************************)
(* Model of webcam_light.py: CameraMonitor.run and the objects it drives   *)
(* (SystemInfo, WebhookNotifier).  Time is counted in whole ticks of the   *)
(* clock read by time.time(); the clock does not run backwards.            *)
(***************************************************************************)
EXTENDS Integers, Sequences, FiniteSets, TLC

(* ------------------------------ bounds --------------------------------- *)
\* lines the log stream delivers before the model stops reading
MaxLines == 3
\* last clock reading of the model
MaxTime == 2
\* largest configured debounce_seconds
MaxDebounce == 1
\* largest configured displays_cache_ttl_seconds
MaxTTL == 1

(* ------------------------------ values --------------------------------- *)
None == "None"
FilterMarker == "Filtering the log data using"
RunningOn == "running -> 1"
RunningOff == "running -> 0"
OtherText == "AVCaptureSession"

\* A log line is a sequence of text fragments; a fragment is one of the
\* markers the code searches for, or other text.
Lines == {<<OtherText>>, <<RunningOn>>, <<OtherText, RunningOff>>,
          <<FilterMarker, RunningOn>>, <<RunningOff, RunningOn>>}

\* `needle in line`
Contains(l, needle) == \E i \in 1..Len(l) : l[i] = needle

\* str.startswith on dotted addresses, octet by octet
StartsWith(s, p) == Len(p) <= Len(s) /\ SubSeq(s, 1, Len(p)) = p

Loopback == <<"127", "0", "0", "1">>
HomeAddr == <<"192", "168", "137", "5">>
OtherAddr == <<"10", "0", "0", "5">>

\* how subprocess.run can fail: non-zero exit under check=True, the
\* timeout, the command cannot be started, the output does not decode
ProbeErrors == {"CalledProcessError", "TimeoutExpired", "OSError", "UnicodeDecodeError"}

\* what /sbin/ifconfig can deliver: a failure, or the inet addresses of its
\* output in order
IfconfigOutputs ==
    {[ok |-> FALSE, err |-> e, inet |-> <<>>] : e \in ProbeErrors}
      \cup {[ok |-> TRUE, err |-> None, inet |-> s] :
              s \in {<<Loopback>>, <<Loopback, HomeAddr>>, <<OtherAddr, Loopback>>}}

\* what system_profiler can deliver: a failure, or the "Connection Type:"
\* values and the number of display header lines of its output
ConnectionTypes == {"Internal", "DisplayPort"}
ProfilerOutputs ==
    {[ok |-> FALSE, err |-> e, conns |-> <<>>, headers |-> 0] : e \in ProbeErrors}
      \cup {[ok |-> TRUE, err |-> None, conns |-> c, headers |-> h] :
              c \in {<<>>} \cup {<<a>> : a \in ConnectionTypes}
                            \cup {<<a, b>> : a \in ConnectionTypes, b \in ConnectionTypes},
              h \in 0..3}

\* what the POST can do: a response with a status, or an exception
SendOutcomes ==
    {[kind |-> "response", status |-> s] : s \in {200, 204, 299, 300, 404}}
      \cup {[kind |-> k, status |-> 0] :
              k \in {"URLError", "HTTPError", "OSError", "ValueError", "HTTPException"}}

\* debounce_seconds is none, a window the clock can outlast, or a window
\* longer than any clock reading of the model
Configs ==
    [webhook_url : {"http://homeassistant:8123/api/webhook/none"},
     home_ip_prefix : {<<"192", "168", "137">>},
     require_home_network : BOOLEAN,
     require_external_monitor : BOOLEAN,
     debounce_seconds : {0, MaxDebounce, MaxTime + 1},
     displays_cache_ttl_seconds : {0, MaxTTL}]

(* ------------------------------ state ---------------------------------- *)
VARIABLES
    _config,            \* Config, fixed at construction
    now,                \* the clock, time.time()
    pc,                 \* position of run()
    proc,               \* the log subprocess: none, running, reaped
    term_sent,          \* process.terminate() has signalled the subprocess
    exc,                \* exception run() has caught
    nread,              \* lines consumed from process.stdout
    line,               \* run(): line
    state,              \* run(): state
    _last_state,        \* CameraMonitor._last_state
    _last_sent,         \* CameraMonitor._last_sent
    _display_cache,     \* SystemInfo._display_cache: <<>> is None, <<b>> a value
    _cache_timestamp,   \* SystemInfo._cache_timestamp
    conditions_ok,      \* run(): conditions_ok
    metadata,           \* run(): metadata
    request,            \* send_notification: the payload being POSTed, <<>> if none
    last_result,        \* what the latest dispatch did: True, False, skipped
    last_send_at,       \* per state, when send_notification was last invoked (0: never)
    detect_calls,       \* invocations of _detect_external_monitor
    probe_failed,       \* whether the latest network probe, and the detection
                        \* behind the cached display value, failed and fell
                        \* back to the default
    branch              \* how the latest line left the loop body's head:
                        \* filter, no_event, debounce (the three continues), event

vars == <<_config, now, pc, proc, term_sent, exc, nread, line, state,
          _last_state, _last_sent, _display_cache, _cache_timestamp,
          conditions_ok, metadata, request, last_result,
          last_send_at, detect_calls, probe_failed, branch>>

LoopPcs == {"read", "net", "display", "notify", "sending", "update"}

NoMetadata == [home_network |-> FALSE, ip_addresses |-> <<>>, external_monitor |-> FALSE]

Init ==
    /\ _config \in Configs
    /\ now = 1
    /\ pc = "start"
    /\ proc = "none"
    /\ term_sent = FALSE
    /\ exc = None
    /\ nread = 0
    /\ line = <<>>
    /\ state = None
    /\ _last_state = None
    /\ _last_sent = 0
    /\ _display_cache = <<>>
    /\ _cache_timestamp = 0
    /\ conditions_ok = FALSE
    /\ metadata = NoMetadata
    /\ request = <<>>
    /\ last_result = None
    /\ last_send_at = [s \in {"on", "off"} |-> 0]
    /\ detect_calls = 0
    /\ probe_failed = [net |-> FALSE, display |-> FALSE]
    /\ branch = None

(* --------------------------- pure functions ---------------------------- *)
\* the except clauses of the two probes name SubprocessError and
\* TimeoutExpired; any other exception of subprocess.run leaves the probe
ProbeRaises(out) ==
    ~out.ok /\ out.err \notin {"CalledProcessError", "TimeoutExpired"}

\* SystemInfo.get_active_ipv4_addresses
RECURSIVE DropLoopback(_)
DropLoopback(s) ==
    IF s = <<>> THEN <<>>
    ELSE IF StartsWith(Head(s), <<"127">>) THEN DropLoopback(Tail(s))
         ELSE <<Head(s)>> \o DropLoopback(Tail(s))

get_active_ipv4_addresses(out) ==
    IF out.ok THEN DropLoopback(out.inet) ELSE <<>>

\* SystemInfo.is_on_home_network, on the addresses found
is_on_home_network(ips) ==
    \E i \in 1..Len(ips) : StartsWith(ips[i], _config.home_ip_prefix)

\* str.lower on a connection type
Lower(s) == IF s = "Internal" THEN "internal" ELSE IF s = "DisplayPort" THEN "displayport" ELSE s

\* SystemInfo._detect_external_monitor
_detect_external_monitor(out) ==
    IF ~out.ok THEN FALSE
    ELSE IF \E i \in 1..Len(out.conns) : Lower(out.conns[i]) # "internal" THEN TRUE
    ELSE out.headers >= 2

\* cache_valid with the TTL compared by <= instead of <
cache_valid_Inclusive ==
    /\ _display_cache # <<>>
    /\ (now - _cache_timestamp) <= _config.displays_cache_ttl_seconds

\* cache_valid that trusts only the result of a detection that succeeded
cache_valid_SuccessOnly ==
    /\ _display_cache # <<>>
    /\ ~probe_failed.display
    /\ (now - _cache_timestamp) < _config.displays_cache_ttl_seconds

\* SystemInfo.has_external_monitor: cache_valid
cache_valid ==
    /\ _display_cache # <<>>
    /\ (now - _cache_timestamp) < _config.displays_cache_ttl_seconds

\* WebhookNotifier.send_notification: True, False, or the exception escapes
send_notification(outcome) ==
    IF outcome.kind = "response"
    THEN IF 200 <= outcome.status /\ outcome.status < 300 THEN "True" ELSE "False"
    ELSE IF outcome.kind \in {"URLError", "HTTPError", "OSError"} THEN "False"
    ELSE "raised"

\* conditions_ok that applies both probes whatever the gates say
ConditionsOk_Ungated(is_home, has_external) == is_home /\ has_external

\* CameraMonitor._conditions_met: conditions_ok
ConditionsOk(is_home, has_external) ==
    LET c0 == TRUE
        c1 == IF _config.require_home_network THEN c0 /\ is_home ELSE c0
        c2 == IF _config.require_external_monitor THEN c1 /\ has_external ELSE c1
    IN  c2

\* _should_debounce with the window compared by <= instead of <
ShouldDebounce_Inclusive(s) ==
    /\ s = _last_state
    /\ (now - _last_sent) <= _config.debounce_seconds

\* _should_debounce that looks at the elapsed time alone
ShouldDebounce_AnyState(s) ==
    (now - _last_sent) < _config.debounce_seconds

\* _should_debounce that gives up the window one tick early
ShouldDebounce_Short(s) ==
    /\ s = _last_state
    /\ (now - _last_sent) < _config.debounce_seconds - 1

\* _should_debounce that takes "no state yet" for a match
ShouldDebounce_NoneMatches(s) ==
    /\ (s = _last_state \/ _last_state = None)
    /\ (now - _last_sent) < _config.debounce_seconds

\* CameraMonitor._should_debounce
_should_debounce(s) ==
    /\ s = _last_state
    /\ (now - _last_sent) < _config.debounce_seconds

\* _parse_camera_state that takes every line without "running -> 1" for
\* a stop
ParseCameraState_NoNone(l) ==
    IF Contains(l, RunningOn) THEN "on" ELSE "off"

\* _parse_camera_state that looks for "running -> 0" first
ParseCameraState_OffFirst(l) ==
    IF Contains(l, RunningOff) THEN "off"
    ELSE IF Contains(l, RunningOn) THEN "on"
    ELSE None

\* CameraMonitor._parse_camera_state
_parse_camera_state(l) ==
    IF Contains(l, RunningOn) THEN "on"
    ELSE IF Contains(l, RunningOff) THEN "off"
    ELSE None

(* ------------------------------ actions -------------------------------- *)
\* run(): Popen starts the log stream, or fails and run() logs and returns
StartProcess ==
    /\ pc = "start"
    /\ \/ /\ proc' = "running"
          /\ pc' = "read"
          /\ exc' = exc
       \/ /\ proc' = "none"
          /\ pc' = "returned"
          /\ exc' = "Exception"
    /\ UNCHANGED <<_config, now, term_sent, nread, line, state, _last_state,
                   _last_sent, _display_cache, _cache_timestamp,
                   conditions_ok, metadata, request, last_result,
                   last_send_at, detect_calls, branch, probe_failed>>

\* ReadLine without the `if not state: continue` of line 202
ReadLine_NoSkip(l) ==
    /\ pc = "read"
    /\ nread < MaxLines
    /\ nread' = nread + 1
    /\ line' = l
    /\ IF Contains(l, FilterMarker)
       THEN /\ state' = state
            /\ branch' = "filter"
       ELSE /\ state' = _parse_camera_state(l)
            /\ branch' = IF state' = None THEN "no_event"
                         ELSE IF _should_debounce(state') THEN "debounce"
                         ELSE "event"
    /\ pc' = IF branch' \in {"event", "no_event"} THEN "net" ELSE "read"
    /\ UNCHANGED <<_config, now, proc, term_sent, exc, _last_state, _last_sent,
                   _display_cache, _cache_timestamp, conditions_ok, metadata,
                   request, last_result, last_send_at, detect_calls, probe_failed>>

\* ReadLine that parses first and skips the informational line only when
\* it carries no camera state
ReadLine_ParseFirst(l) ==
    /\ pc = "read"
    /\ nread < MaxLines
    /\ nread' = nread + 1
    /\ line' = l
    /\ IF Contains(l, FilterMarker) /\ _parse_camera_state(l) = None
       THEN /\ state' = state
            /\ branch' = "filter"
       ELSE /\ state' = _parse_camera_state(l)
            /\ branch' = IF state' = None THEN "no_event"
                         ELSE IF _should_debounce(state') THEN "debounce"
                         ELSE "event"
    /\ pc' = IF branch' = "event" THEN "net" ELSE "read"
    /\ UNCHANGED <<_config, now, proc, term_sent, exc, _last_state, _last_sent,
                   _display_cache, _cache_timestamp, conditions_ok, metadata,
                   request, last_result, last_send_at, detect_calls,
                   probe_failed>>

\* run(): one line of the stream, up to the debounce decision
ReadLine(l) ==
    /\ pc = "read"
    /\ nread < MaxLines
    /\ nread' = nread + 1
    /\ line' = l
    /\ IF Contains(l, FilterMarker)
       THEN /\ state' = state
            /\ branch' = "filter"
       ELSE /\ state' = _parse_camera_state(l)
            /\ branch' = IF state' = None THEN "no_event"
                         ELSE IF _should_debounce(state') THEN "debounce"
                         ELSE "event"
    /\ pc' = IF branch' = "event" THEN "net" ELSE "read"
    /\ UNCHANGED <<_config, now, proc, term_sent, exc, _last_state, _last_sent,
                   _display_cache, _cache_timestamp, conditions_ok, metadata,
                   request, last_result, last_send_at, detect_calls, probe_failed>>

\* NetworkProbe that reports home_network only when the gate asks for it
NetworkProbe_Gated(out) ==
    /\ pc = "net"
    /\ IF ProbeRaises(out)
       THEN /\ pc' = "exit_wait"
            /\ exc' = "Exception"
            /\ UNCHANGED <<metadata, probe_failed>>
       ELSE /\ LET ips == get_active_ipv4_addresses(out)
               IN  metadata' = [metadata EXCEPT
                                  !.home_network = _config.require_home_network
                                                     /\ is_on_home_network(ips),
                                  !.ip_addresses = ips]
            /\ probe_failed' = [probe_failed EXCEPT !.net = ~out.ok]
            /\ pc' = "display"
            /\ exc' = exc
    /\ UNCHANGED <<_config, now, proc, term_sent, nread, line, state,
                   _last_state, _last_sent, _display_cache, _cache_timestamp,
                   conditions_ok, request, last_result, last_send_at,
                   detect_calls, branch>>

\* _conditions_met: is_on_home_network; an exception the probe does not
\* catch leaves _conditions_met and the with block of run()
NetworkProbe(out) ==
    /\ pc = "net"
    /\ IF ProbeRaises(out)
       THEN /\ pc' = "exit_wait"
            /\ exc' = "Exception"
            /\ UNCHANGED <<metadata, probe_failed>>
       ELSE /\ LET ips == get_active_ipv4_addresses(out)
               IN  metadata' = [metadata EXCEPT
                                  !.home_network = is_on_home_network(ips),
                                  !.ip_addresses = ips]
            /\ probe_failed' = [probe_failed EXCEPT !.net = ~out.ok]
            /\ pc' = "display"
            /\ exc' = exc
    /\ UNCHANGED <<_config, now, proc, term_sent, nread, line, state,
                   _last_state, _last_sent, _display_cache, _cache_timestamp,
                   conditions_ok, request, last_result, last_send_at,
                   detect_calls, branch>>

\* _conditions_met: has_external_monitor, then the gates; an exception the
\* detection does not catch leaves before the cache is assigned
DisplayProbe(out) ==
    /\ pc = "display"
    /\ IF ~cache_valid /\ ProbeRaises(out)
       THEN /\ detect_calls' = detect_calls + 1
            /\ pc' = "exit_wait"
            /\ exc' = "Exception"
            /\ UNCHANGED <<_display_cache, _cache_timestamp, probe_failed,
                           metadata, conditions_ok>>
       ELSE /\ IF ~cache_valid
               THEN /\ _display_cache' = <<_detect_external_monitor(out)>>
                    /\ _cache_timestamp' = now
                    /\ detect_calls' = detect_calls + 1
                    /\ probe_failed' = [probe_failed EXCEPT !.display = ~out.ok]
               ELSE UNCHANGED <<_display_cache, _cache_timestamp, detect_calls,
                                probe_failed>>
            /\ metadata' = [metadata EXCEPT !.external_monitor = _display_cache'[1]]
            /\ conditions_ok' = ConditionsOk(metadata.home_network, _display_cache'[1])
            /\ pc' = "notify"
            /\ exc' = exc
    /\ UNCHANGED <<_config, now, proc, term_sent, nread, line, state,
                   _last_state, _last_sent, request, last_result,
                   last_send_at, branch>>

\* run(): the dispatch; send_notification builds the payload and POSTs it
Notify ==
    /\ pc = "notify"
    /\ IF conditions_ok /\ (state = "on" \/ state = "off")
       THEN /\ request' = <<[state |-> state] @@ metadata>>
            /\ last_send_at' = [last_send_at EXCEPT ![state] = now]
            /\ pc' = "sending"
            /\ UNCHANGED last_result
       ELSE /\ last_result' = "skipped"
            /\ pc' = "update"
            /\ UNCHANGED <<request, last_send_at>>
    /\ UNCHANGED <<_config, now, proc, term_sent, exc, nread, line, state,
                   _last_state, _last_sent, _display_cache, _cache_timestamp,
                   conditions_ok, metadata, detect_calls, branch, probe_failed>>

\* send_notification: the POST ends; True or False goes back to run(), or
\* an exception the except clause does not name leaves send_notification
Response(outcome) ==
    /\ pc = "sending"
    /\ request' = <<>>
    /\ last_result' = send_notification(outcome)
    /\ IF last_result' = "raised"
       THEN pc' = "exit_wait" /\ exc' = "Exception"
       ELSE pc' = "update" /\ exc' = exc
    /\ UNCHANGED <<_config, now, proc, term_sent, nread, line, state,
                   _last_state, _last_sent, _display_cache, _cache_timestamp,
                   conditions_ok, metadata, last_send_at, detect_calls, branch,
                   probe_failed>>

\* UpdateState that records the event only when the webhook was delivered
UpdateState_OnSuccessOnly ==
    /\ pc = "update"
    /\ IF last_result = "False"
       THEN UNCHANGED <<_last_state, _last_sent>>
       ELSE _last_state' = state /\ _last_sent' = now
    /\ pc' = "read"
    /\ UNCHANGED <<_config, now, proc, term_sent, exc, nread, line, state,
                   _display_cache, _cache_timestamp, conditions_ok, metadata,
                   request, last_result, last_send_at, detect_calls, branch,
                   probe_failed>>

\* UpdateState that assigns _last_state and leaves _last_sent for later
UpdateState_StateOnly ==
    /\ pc = "update"
    /\ _last_state' = state
    /\ pc' = "read"
    /\ UNCHANGED <<_config, now, proc, term_sent, exc, nread, line, state,
                   _last_sent, _display_cache, _cache_timestamp,
                   conditions_ok, metadata, request, last_result,
                   last_send_at, detect_calls, branch, probe_failed>>

\* UpdateState that records the event only when a send was attempted
UpdateState_OnSendOnly ==
    /\ pc = "update"
    /\ IF last_result = "skipped"
       THEN UNCHANGED <<_last_state, _last_sent>>
       ELSE _last_state' = state /\ _last_sent' = now
    /\ pc' = "read"
    /\ UNCHANGED <<_config, now, proc, term_sent, exc, nread, line, state,
                   _display_cache, _cache_timestamp, conditions_ok, metadata,
                   request, last_result, last_send_at, detect_calls, branch,
                   probe_failed>>

\* run(): the runtime state update that ends an iteration
UpdateState ==
    /\ pc = "update"
    /\ _last_state' = state
    /\ _last_sent' = now
    /\ pc' = "read"
    /\ UNCHANGED <<_config, now, proc, term_sent, exc, nread, line, state,
                   _display_cache, _cache_timestamp, conditions_ok, metadata,
                   request, last_result, last_send_at, detect_calls, branch,
                   probe_failed>>

\* time passes while run() waits for a line, a probe or the webhook
Tick ==
    /\ pc \in LoopPcs
    /\ now < MaxTime
    /\ now' = now + 1
    /\ UNCHANGED <<_config, pc, proc, term_sent, exc, nread, line, state,
                   _last_state, _last_sent, _display_cache, _cache_timestamp,
                   conditions_ok, metadata, request, last_result,
                   last_send_at, detect_calls, branch, probe_failed>>

\* run(): the stream is at end of file and the for loop ends; Popen.__exit__
\* then waits, without a timeout, for the subprocess to exit
StreamClosed ==
    /\ pc = "read"
    /\ pc' = "exit_wait"
    /\ UNCHANGED <<_config, now, proc, term_sent, exc, nread, line, state,
                   _last_state, _last_sent, _display_cache, _cache_timestamp,
                   conditions_ok, metadata, request, last_result,
                   last_send_at, detect_calls, branch, probe_failed>>

\* run(): reading the stream raises (a line that does not decode);
\* Popen.__exit__ waits as above
StreamError ==
    /\ pc = "read"
    /\ pc' = "exit_wait"
    /\ exc' = "Exception"
    /\ UNCHANGED <<_config, now, proc, term_sent, nread, line, state,
                   _last_state, _last_sent, _display_cache, _cache_timestamp,
                   conditions_ok, metadata, request, last_result,
                   last_send_at, detect_calls, branch, probe_failed>>

\* run(): the subprocess exits, Popen.__exit__'s wait() returns, the except
\* clause logs a pending exception, and finally finds the subprocess
\* already reaped: terminate() does nothing and wait(timeout=5) returns
ExitWait ==
    /\ pc = "exit_wait"
    /\ proc = "running"
    /\ proc' = "reaped"
    /\ pc' = "returned"
    /\ UNCHANGED <<_config, now, term_sent, exc, nread, line, state,
                   _last_state, _last_sent, _display_cache, _cache_timestamp,
                   conditions_ok, metadata, request, last_result,
                   last_send_at, detect_calls, branch, probe_failed>>

\* run(): KeyboardInterrupt inside the with block.  Popen.__exit__ waits
\* briefly for the subprocess and lets the exception through; the except
\* clause logs it; finally calls process.terminate() and
\* process.wait(timeout=5), whose TimeoutExpired nothing catches
Interrupt ==
    /\ pc \in LoopPcs
    /\ exc' = "KeyboardInterrupt"
    /\ request' = <<>>
    /\ \/ \* the subprocess exited during Popen.__exit__'s brief wait
          /\ proc' = "reaped"
          /\ term_sent' = FALSE
          /\ pc' = "returned"
       \/ \* terminate() signals it and it exits within the timeout
          /\ proc' = "reaped"
          /\ term_sent' = TRUE
          /\ pc' = "returned"
       \/ \* terminate() signals it and wait(timeout=5) raises TimeoutExpired
          /\ proc' = "running"
          /\ term_sent' = TRUE
          /\ pc' = "raised"
    /\ UNCHANGED <<_config, now, nread, line, state, _last_state,
                   _last_sent, _display_cache, _cache_timestamp,
                   conditions_ok, metadata, last_result, last_send_at,
                   detect_calls, branch, probe_failed>>

Next ==
    \/ StartProcess
    \/ \E l \in Lines : ReadLine(l)
    \/ \E out \in IfconfigOutputs : NetworkProbe(out)
    \/ \E out \in ProfilerOutputs : DisplayProbe(out)
    \/ Notify
    \/ \E outcome \in SendOutcomes : Response(outcome)
    \/ UpdateState
    \/ Tick
    \/ StreamClosed
    \/ StreamError
    \/ ExitWait
    \/ Interrupt

Spec == Init /\ [][Next]_vars

TypeOK ==
    /\ pc \in LoopPcs \cup {"start", "exit_wait", "returned", "raised"}
    /\ now \in 1..MaxTime
    /\ probe_failed \in [net : BOOLEAN, display : BOOLEAN]
    /\ _last_state \in {None, "on", "off"}
    /\ nread \in 0..MaxLines

(* ------------------------------ claims --------------------------------- *)
\* a step of run() that read a line which parsed to a camera state
ParsedEvent == nread' = nread + 1 /\ branch' \in {"debounce", "event"}

\* C1: a parsed event with state S is suppressed (run() goes straight back
\* to reading) exactly when S equals _last_state and the time since
\* _last_sent is strictly less than debounce_seconds; otherwise it goes on
\* to condition evaluation.
C1_DebounceRule ==
    [][ParsedEvent =>
          LET inWindow == /\ state' = _last_state
                          /\ now - _last_sent < _config.debounce_seconds
          IN  /\ state' \in {"on", "off"}
              /\ (branch' = "debounce") = inWindow
              /\ (branch' = "event") = ~inWindow
              /\ pc' = IF inWindow THEN "read" ELSE "net"]_vars

\* an On event inside the window after an On has just been suppressed
C1_Witness ==
    /\ branch = "debounce"
    /\ pc = "read"
    /\ state = "on"
    /\ _last_state = "on"
    /\ _config.debounce_seconds > 0
    /\ now - _last_sent < _config.debounce_seconds

\* C2, as claimed: any two invocations of send_notification that carry the
\* same state are at least debounce_seconds apart.
C2_AnyTwoSendsSpaced ==
    [][(pc = "notify" /\ pc' = "sending" /\ last_send_at[state] # 0)
          => now - last_send_at[state] >= _config.debounce_seconds]_vars

\* C2, amended: a send for state S that follows a processed event of the
\* same state S (the event before it left _last_state = S) is at least
\* debounce_seconds after the previous send for S.
C2_SendsSpacedWithinRun ==
    [][(pc = "notify" /\ pc' = "sending" /\ last_send_at[state] # 0
          /\ _last_state = state)
          => now - last_send_at[state] >= _config.debounce_seconds]_vars

\* a second send for "on" is under way, a full window after the first, with
\* no other state processed in between
C2_Witness ==
    /\ pc = "sending"
    /\ state = "on"
    /\ _last_state = "on"
    /\ last_result \in {"True", "False"}
    /\ _config.debounce_seconds > 0
    /\ last_send_at["on"] - _last_sent >= _config.debounce_seconds

\* C3: a parsed event whose state is the opposite of _last_state is never
\* suppressed, whatever the clock reads: it goes on to condition evaluation.
C3_OppositeNeverDebounced ==
    [][(ParsedEvent /\ _last_state \in {"on", "off"} /\ state' # _last_state)
          => (branch' = "event" /\ pc' = "net")]_vars

\* an Off event goes on to condition evaluation although no time has
\* passed since the On before it was recorded
C3_Witness ==
    /\ pc = "net"
    /\ state = "off"
    /\ _last_state = "on"
    /\ _config.debounce_seconds > 0
    /\ now = _last_sent

\* C4: whatever send_notification returns, run() goes on to set
\* _last_state = S and _last_sent = now; after a failed delivery of S an
\* identical event inside the window is suppressed and nothing is sent.
C4_FailedSendConsumesWindow ==
    [][/\ (pc = "sending" /\ pc' # "sending" /\ exc' = None)
             => (last_result' \in {"True", "False"} /\ pc' = "update")
       /\ (pc = "update" /\ last_result \in {"True", "False"} /\ pc' = "read")
             => (_last_state' = state /\ _last_sent' = now)
       /\ (ParsedEvent /\ last_result = "False" /\ state' = _last_state
             /\ now - _last_sent < _config.debounce_seconds)
             => (branch' = "debounce" /\ pc' = "read"
                 /\ UNCHANGED <<request, last_send_at, last_result>>)]_vars

\* the delivery of S failed, S was recorded, and the same S inside the
\* window has just been suppressed
C4_Witness ==
    /\ branch = "debounce"
    /\ pc = "read"
    /\ last_result = "False"
    /\ state = _last_state
    /\ last_send_at[state] # 0
    /\ now - _last_sent < _config.debounce_seconds

\* C5, as claimed: for every outcome of the POST send_notification returns
\* a boolean to run(), which goes on to the state update; no exception
\* leaves send_notification.
C5_SendNeverRaises ==
    [][(pc = "sending" /\ pc' \notin {"sending", "returned", "raised"})
          => (last_result' \in {"True", "False"} /\ pc' = "update"
              /\ exc' = None)]_vars

\* the gates as the specification words them
GatesHold ==
    /\ (~_config.require_home_network \/ metadata.home_network)
    /\ (~_config.require_external_monitor \/ metadata.external_monitor)

\* C6: conditions_ok = (not require_home_network or is_home) and (not
\* require_external_monitor or has_external), and send_notification is
\* invoked for a non-debounced event exactly when conditions_ok is true.
C6_GateSemantics ==
    [][(pc = "notify" /\ pc' \in {"sending", "update"})
          => /\ conditions_ok = GatesHold
             /\ (pc' = "sending") = GatesHold
             /\ pc' = "sending"
                   => (request' = <<[state |-> state] @@ metadata>>
                       /\ last_send_at'[state] = now)
             /\ pc' = "update"
                   => (last_result' = "skipped"
                       /\ UNCHANGED <<request, last_send_at>>)]_vars

\* require_home_network only, not at home, external monitor present: the
\* event was dispatched without a send
C6_Witness ==
    /\ pc = "update"
    /\ last_result = "skipped"
    /\ _config.require_home_network
    /\ ~_config.require_external_monitor
    /\ ~metadata.home_network
    /\ metadata.external_monitor
    /\ ~conditions_ok

\* C7: has_external_monitor runs the detection exactly when no value is
\* cached or now - _cache_timestamp >= TTL, and then overwrites value and
\* timestamp together; otherwise it returns the cached value, probes
\* nothing and leaves the cache alone.  Detection runs nowhere else, and a
\* detection that raises leaves the cache as it was.
C7_DisplayCache ==
    [][/\ (pc = "display" /\ pc' = "notify")
             => LET stale == \/ _display_cache = <<>>
                             \/ now - _cache_timestamp >= _config.displays_cache_ttl_seconds
                IN  /\ stale => /\ detect_calls' = detect_calls + 1
                                /\ _cache_timestamp' = now
                                /\ _display_cache' # <<>>
                    /\ ~stale => UNCHANGED <<_display_cache, _cache_timestamp, detect_calls>>
                    /\ metadata'.external_monitor = _display_cache'[1]
       /\ (pc = "display" /\ pc' = "exit_wait")
             => /\ detect_calls' = detect_calls + 1
                /\ UNCHANGED <<_display_cache, _cache_timestamp>>
       /\ ~(pc = "display" /\ pc' \in {"notify", "exit_wait"})
             => UNCHANGED <<_display_cache, _cache_timestamp, detect_calls>>]_vars

\* a second call inside the TTL has returned the cached value: one
\* detection so far, two events evaluated
C7_Witness ==
    /\ pc = "notify"
    /\ _last_state # None
    /\ detect_calls = 1
    /\ _config.displays_cache_ttl_seconds > 0
    /\ now - _cache_timestamp < _config.displays_cache_ttl_seconds
    /\ metadata.external_monitor = _display_cache[1]

\* C8: _last_state and _last_sent change only in the one update step of an
\* event, together, after its dispatch has returned; an event under way
\* gets back to reading only through that step, and no line is read while
\* an event is under way.
C8_UpdateOncePerEvent ==
    [][/\ (_last_state' # _last_state \/ _last_sent' # _last_sent)
             => /\ pc = "update" /\ pc' = "read"
                /\ request = <<>>
                /\ last_result \in {"True", "False", "skipped"}
       /\ (pc = "update" /\ pc' = "read")
             => (_last_state' = state /\ _last_sent' = now)
       /\ (pc \in LoopPcs \ {"read"} /\ pc' = "read") => pc = "update"
       /\ (nread' # nread) => (pc = "read" /\ request = <<>>)]_vars

\* an Off event has been dispatched and recorded, and run() is back at
\* reading the stream
C8_Witness ==
    /\ pc = "read"
    /\ branch = "event"
    /\ state = "off"
    /\ _last_state = "off"
    /\ _last_sent = now
    /\ last_result = "True"

\* C9: a debounced event and a line that yields no event change nothing:
\* runtime state and display cache stay, no detection runs, nothing is
\* sent, and run() is back at reading without having reached the probes.
C9_SkippedLineChangesNothing ==
    [][(nread' = nread + 1 /\ branch' \in {"debounce", "no_event"})
          => /\ pc' = "read"
             /\ (branch' = "no_event")
                   = (~Contains(line', RunningOn) /\ ~Contains(line', RunningOff))
             /\ UNCHANGED <<_last_state, _last_sent, _display_cache,
                            _cache_timestamp, detect_calls, request,
                            last_send_at, last_result, metadata,
                            conditions_ok>>]_vars

\* a line without a camera state was read after an event had been recorded
C9_Witness ==
    /\ pc = "read"
    /\ branch = "no_event"
    /\ state = None
    /\ _last_state = "on"
    /\ _display_cache # <<>>

\* C10, as claimed: after an operator interruption run() returns normally
\* even when the subprocess has not exited within the bounded wait.
C10_InterruptReturnsNormally ==
    exc = "KeyboardInterrupt" => (pc = "returned" /\ proc = "reaped")

\* C11, as claimed: when the stream closes or an unexpected error ends the
\* loop, the subprocess is asked to terminate, so that run() never waits
\* for a running subprocess it has not signalled.
C11_LoopEndAsksToTerminate ==
    (pc = "exit_wait" /\ proc = "running") => term_sent

\* C12: a non-debounced event goes through the network probe and then the
\* display probe whatever the gates are; metadata is exactly what the
\* probes returned (home_network and ip_addresses from the addresses
\* found, external_monitor from has_external_monitor) and changes nowhere
\* else; the payload of a send is state plus that metadata, nothing more.
C12_MetadataIsProbeResults ==
    [][/\ (nread' = nread + 1 /\ branch' = "event") => pc' = "net"
       /\ (pc = "net" /\ pc' \in LoopPcs \ {"net"})
             => /\ pc' = "display"
                /\ \E out \in IfconfigOutputs :
                      LET ips == get_active_ipv4_addresses(out)
                      IN  metadata' = [home_network |-> is_on_home_network(ips),
                                       ip_addresses |-> ips,
                                       external_monitor |-> metadata.external_monitor]
       /\ (pc = "display" /\ pc' \in LoopPcs \ {"display"})
             => /\ pc' = "notify"
                /\ _display_cache' # <<>>
                /\ metadata' = [home_network |-> metadata.home_network,
                                ip_addresses |-> metadata.ip_addresses,
                                external_monitor |-> _display_cache'[1]]
       /\ (pc \notin {"net", "display"}) => metadata' = metadata
       /\ (pc = "notify" /\ pc' = "sending")
             => request' = <<[state |-> state,
                              home_network |-> metadata.home_network,
                              ip_addresses |-> metadata.ip_addresses,
                              external_monitor |-> metadata.external_monitor]>>
       /\ (request' # request /\ request' # <<>>)
             => (pc = "notify" /\ pc' = "sending")]_vars

\* the end-to-end scenario: the first line carried "running -> 1", both
\* gates are on, the machine is at home with an external monitor; one send
\* for "on" was made and delivered, and the runtime state is (on, now)
C12_Witness ==
    /\ pc = "read"
    /\ nread = 1
    /\ branch = "event"
    /\ Contains(line, RunningOn)
    /\ state = "on"
    /\ _config.require_home_network
    /\ _config.require_external_monitor
    /\ metadata = [home_network |-> TRUE, ip_addresses |-> <<HomeAddr>>,
                   external_monitor |-> TRUE]
    /\ last_result = "True"
    /\ last_send_at["on"] # 0
    /\ last_send_at["off"] = 0
    /\ _last_state = "on"
    /\ _last_sent = now

\* C13, as claimed: a probe never raises to run(): each probe step goes on
\* to the next step of the event with no exception, a failed network
\* probe leaves an empty address list and home_network false, a failed
\* display probe leaves external_monitor false, and an event evaluated
\* during a failure whose gate is set is dispatched without a send.
C13_ProbesFailClosed ==
    [][/\ (pc = "net" /\ pc' # "net" /\ exc' # "KeyboardInterrupt")
             => /\ pc' = "display" /\ exc' = None
                /\ probe_failed'.net
                      => (metadata'.ip_addresses = <<>> /\ ~metadata'.home_network)
       /\ (pc = "display" /\ pc' # "display" /\ exc' # "KeyboardInterrupt")
             => /\ pc' = "notify" /\ exc' = None
                /\ probe_failed'.display => ~metadata'.external_monitor
       /\ (pc = "notify" /\ pc' # "notify" /\ exc' # "KeyboardInterrupt"
             /\ \/ (_config.require_home_network /\ probe_failed.net)
                \/ (_config.require_external_monitor /\ probe_failed.display))
             => (pc' = "update" /\ last_result' = "skipped" /\ request' = <<>>)]_vars

\* a step of run() that read a line and handed it to _parse_camera_state
ParsedLine == nread' = nread + 1 /\ branch' # "filter"

\* C14, as claimed: parsing yields "on" if and only if the line contains
\* "running -> 1", "off" if and only if it contains "running -> 0", and no
\* event for every other line.
C14_ParseIffContains ==
    [][ParsedLine
          => /\ state' \in {"on", "off", None}
             /\ (state' = "on") = Contains(line', RunningOn)
             /\ (state' = "off") = Contains(line', RunningOff)
             /\ (state' = None)
                   = (~Contains(line', RunningOn) /\ ~Contains(line', RunningOff))]_vars

\* C14, amended: parsing yields "on" if and only if the line contains
\* "running -> 1", "off" if and only if it contains "running -> 0" and
\* does not contain "running -> 1", and no event for every other line.
C14_ParseTotal ==
    [][ParsedLine
          => /\ state' \in {"on", "off", None}
             /\ (state' = "on") = Contains(line', RunningOn)
             /\ (state' = "off")
                   = (Contains(line', RunningOff) /\ ~Contains(line', RunningOn))
             /\ (state' = None)
                   = (~Contains(line', RunningOn) /\ ~Contains(line', RunningOff))
             /\ (branch' = "no_event") = (state' = None)]_vars

\* a line with "running -> 0" among other text, and without
\* "running -> 1", has been parsed to "off"
C14_Witness ==
    /\ nread > 0
    /\ branch \in {"event", "debounce"}
    /\ line = <<OtherText, RunningOff>>
    /\ state = "off"

\* C15: a line that contains "Filtering the log data using" is skipped
\* before parsing, whatever else it contains: run() is back at reading,
\* run()'s state, the runtime state, the display cache, the metadata and
\* the send records are untouched, and no probe and no send has started.
C15_FilterLineSkipped ==
    [][(nread' = nread + 1 /\ Contains(line', FilterMarker))
          => /\ branch' = "filter"
             /\ pc' = "read"
             /\ UNCHANGED <<state, _last_state, _last_sent, _display_cache,
                            _cache_timestamp, detect_calls, probe_failed,
                            metadata, conditions_ok, request, last_result,
                            last_send_at, exc, proc>>]_vars

\* the echo of the predicate, which carries "running -> 1", was read after
\* an Off event had been recorded, and left no trace of an On event
C15_Witness ==
    /\ pc = "read"
    /\ branch = "filter"
    /\ Contains(line, FilterMarker)
    /\ Contains(line, RunningOn)
    /\ state = "off"
    /\ _last_state = "off"
    /\ last_send_at["on"] = 0

\* C16: a line that contains both "running -> 1" and "running -> 0" is
\* parsed to "on", and is one On event: the one line sets state to "on",
\* is debounced or evaluated as any On event is, and the event it starts
\* keeps the state "on" up to the update that records it; no second event
\* comes from the line, since nothing is read while an event is under way.
C16_BothMarkersYieldOn ==
    [][/\ (ParsedLine /\ Contains(line', RunningOn) /\ Contains(line', RunningOff))
             => /\ state' = "on"
                /\ branch' \in {"debounce", "event"}
                /\ (branch' = "debounce")
                      = (_last_state = "on"
                         /\ now - _last_sent < _config.debounce_seconds)
                /\ pc' = IF branch' = "event" THEN "net" ELSE "read"
       /\ (pc \in {"net", "display", "notify", "sending", "update"})
             => UNCHANGED <<state, line, nread>>
       /\ (pc = "notify" /\ pc' = "sending") => request'[1].state = state
       /\ (pc = "update" /\ pc' = "read") => _last_state' = state]_vars

\* the first line carried both markers; one send, for "on", was made and
\* the runtime state records "on"
C16_Witness ==
    /\ pc = "read"
    /\ nread = 1
    /\ branch = "event"
    /\ line = <<RunningOff, RunningOn>>
    /\ state = "on"
    /\ _last_state = "on"
    /\ last_send_at["on"] # 0
    /\ last_send_at["off"] = 0

\* C17: an event whose conditions are not met is dispatched without a
\* send and is recorded all the same (_last_state = S, _last_sent = now);
\* an identical event inside the window after it is suppressed without
\* evaluating any condition, although nothing was ever sent for S.
C17_UnsentEventConsumesWindow ==
    [][/\ (pc = "notify" /\ ~conditions_ok /\ pc' \in LoopPcs \ {"notify"})
             => /\ pc' = "update"
                /\ last_result' = "skipped"
                /\ UNCHANGED <<request, last_send_at>>
       /\ (pc = "update" /\ last_result = "skipped" /\ pc' \in LoopPcs \ {"update"})
             => (pc' = "read" /\ _last_state' = state /\ _last_sent' = now)
       /\ (ParsedEvent /\ last_result = "skipped" /\ state' = _last_state
             /\ now - _last_sent < _config.debounce_seconds)
             => /\ branch' = "debounce"
                /\ pc' = "read"
                /\ UNCHANGED <<request, last_send_at, last_result, metadata,
                               conditions_ok, detect_calls, _last_state,
                               _last_sent>>]_vars

\* an On event found the home gate closed and was recorded without a
\* send; a second On inside the window has just been suppressed, and
\* nothing has been sent for "on" at all
C17_Witness ==
    /\ pc = "read"
    /\ branch = "debounce"
    /\ state = "on"
    /\ _last_state = "on"
    /\ last_result = "skipped"
    /\ ~conditions_ok
    /\ last_send_at["on"] = 0
    /\ _config.debounce_seconds > 0
    /\ now - _last_sent < _config.debounce_seconds

\* C18: a detection that fails and falls back to false stores that false
\* with the time of the call, as a successful detection stores its result;
\* while less than TTL has passed since, every evaluated event takes the
\* stored false without a new detection, whatever system_profiler would
\* answer now; and an event evaluated on a stored failure with
\* require_external_monitor set is dispatched without a send.
C18_FailedProbeIsCached ==
    [][/\ (pc = "display" /\ pc' = "notify" /\ detect_calls' # detect_calls
             /\ probe_failed'.display)
             => (_display_cache' = <<FALSE>> /\ _cache_timestamp' = now)
       /\ probe_failed'.display => _display_cache' = <<FALSE>>
       /\ (pc = "display" /\ pc' \in {"notify", "exit_wait"}
             /\ probe_failed.display
             /\ now - _cache_timestamp < _config.displays_cache_ttl_seconds)
             => /\ pc' = "notify"
                /\ UNCHANGED <<_display_cache, _cache_timestamp, detect_calls,
                               probe_failed>>
                /\ ~metadata'.external_monitor
       /\ (pc = "notify" /\ pc' \in LoopPcs \ {"notify"}
             /\ probe_failed.display /\ _config.require_external_monitor)
             => /\ pc' = "update"
                /\ last_result' = "skipped"
                /\ UNCHANGED <<request, last_send_at>>]_vars

\* the one detection so far failed; a later event, evaluated inside the
\* TTL with require_external_monitor set, took the stored false and was
\* dispatched without a send
C18_Witness ==
    /\ pc = "update"
    /\ last_result = "skipped"
    /\ _last_state # None
    /\ detect_calls = 1
    /\ probe_failed.display
    /\ _display_cache = <<FALSE>>
    /\ ~metadata.external_monitor
    /\ _config.require_external_monitor
    /\ ~_config.require_home_network
    /\ _config.displays_cache_ttl_seconds > 0
    /\ now - _cache_timestamp < _config.displays_cache_ttl_seconds

\* C19: with the runtime state as constructed (_last_state None,
\* _last_sent 0) a parsed event is never suppressed, whatever the clock
\* reads and however long the window is; _last_state is None exactly
\* while _last_sent is still 0, that is, until the first update step of an
\* event, and never becomes None again.
C19_FirstEventNeverDebounced ==
    [][/\ (ParsedEvent /\ _last_state = None /\ _last_sent = 0)
             => (branch' = "event" /\ pc' = "net")
       /\ (_last_state = None) = (_last_sent = 0)
       /\ (_last_state' = None) = (_last_sent' = 0)
       /\ (pc = "update" /\ pc' = "read") => _last_state' \in {"on", "off"}
       /\ (_last_state # None) => (_last_state' = _last_state \/ pc = "update")
       /\ (_last_state = None /\ _last_state' # None)
             => (pc = "update" /\ pc' = "read")]_vars

\* the first event of the run goes on to condition evaluation although
\* the clock reading is smaller than the window
C19_Witness ==
    /\ pc = "net"
    /\ branch = "event"
    /\ state \in {"on", "off"}
    /\ _last_state = None
    /\ _last_sent = 0
    /\ now - _last_sent < _config.debounce_seconds
====
